---- MODULE Spec2Model ----
(***************************************************************************)
(* Jobs portal: the request-time access-control middleware (the NextAuth   *)
(* token variant and the Clerk variant of src/middleware.ts), the Clerk    *)
(* role metadata written by /api/user/update-role and by the user.created  *)
(* webhook, and the UserService credential store (document store and file  *)
(* store variants of createUser).                                          *)
(*                                                                         *)
(* Paths are strings; every prefix test is the character-wise startsWith   *)
(* of the source.  The path alphabet has no "_next" segment and no file    *)
(* extension, so the matcher of the Clerk variant (middleware.ts:149-156)  *)
(* runs the handler on every path of the model.                            *)
(***************************************************************************)
EXTENDS Integers, Sequences, FiniteSets, TLC

VARIABLES
    req,             \* the request a decision procedure is applied to
    last,            \* the latest middleware evaluation (request and response)
    prev,            \* the evaluation before it
    clerkUsers,      \* identities that exist at the identity provider
    publicMetadata,  \* identity -> role held in the provider's public metadata
    updateRoleStatus,\* HTTP status of the latest POST /api/user/update-role
    backend,         \* which UserService the deployment runs: "mongo", "file" or "none"
    collection,      \* document store: the 'users' collection, in insertion order
    usersFile,       \* file store: the array kept in data/users.json
    calls,           \* createUser calls: position, argument, loaded array, result
    nextId,          \* source of fresh record identifiers
    http,            \* POST /api/auth/register requests: body and response
    reply            \* what the latest lookup or login returned to its caller

vars == <<req, last, prev, clerkUsers, publicMetadata, updateRoleStatus,
          backend, collection, usersFile, calls, nextId, http, reply>>

clerkVars == <<clerkUsers, publicMetadata, updateRoleStatus>>
storeVars == <<backend, collection, usersFile, calls, nextId, http, reply>>

(***************************************************************************)
(* Bounds                                                                  *)
(***************************************************************************)
MaxSegs == 3     \* longest request path, in segments of Segs
MaxUsers == 2    \* most records a store holds
MaxHops == 4     \* most redirects followed from one request
MaxCreates == 2  \* most records created in a run with overlapping calls

(***************************************************************************)
(* Values                                                                  *)
(***************************************************************************)
NoUser == "<null>"        \* auth() userId null / req.nextauth.token null
NoRole == "<undefined>"   \* role absent from the claim set
Roles == {"job_seeker", "employer"}
RoleInputs == Roles \cup {NoRole, "admin"}
UserIds == {"user_1", "user_2"}

Missing == "<undefined>"      \* a field the argument or body does not carry
NumberValue == "<number>"     \* a JSON number where a string is expected
IsString(v) == v \notin {Missing, NumberValue}

Procs == {"p1", "p2"}                  \* callers of createUser
Names == {"Ann"}
Emails == {"ann@x.io", "bob@x.io"}
Passwords == {"secret1", "Secret1"}
Salts == {"salt_a", "salt_b"}          \* what bcrypt's salt generator can draw

\* the arguments createUser is called with
UserRegistrations ==
    [name : Names, email : Emails, password : Passwords, role : Roles]

BaseRegistration ==
    [name |-> "Ann", email |-> "ann@x.io", password |-> "secret1",
     role |-> "job_seeker"]

\* the registrations overlapping callers submit
SomeRegistrations ==
    {BaseRegistration,
     [BaseRegistration EXCEPT !.password = "Secret1", !.role = "employer"],
     [BaseRegistration EXCEPT !.email = "bob@x.io", !.password = "abcdef",
                              !.role = "employer"]}

\* a password longer than bcrypt's input, and its first 72 characters
LongPrefix ==
    "correct-horse-battery-staple-correct-horse-battery-staple-0123456789-abc"
LongPassword == LongPrefix \o "d"

\* registrations followed by logins: one with a short password and one
\* with a long one; logins with the passwords, a prefix, a case variant
AuthRegistrations ==
    {BaseRegistration,
     [BaseRegistration EXCEPT !.email = "bob@x.io", !.password = LongPassword,
                              !.role = "employer"]}

\* arguments of direct calls of createUser: valid ones, and ones with a
\* field missing or with a role outside the enum
DirectCalls ==
    SomeRegistrations \cup
        {[BaseRegistration EXCEPT !.email = Missing],
         [BaseRegistration EXCEPT !.password = Missing],
         [BaseRegistration EXCEPT !.role = Missing],
         [BaseRegistration EXCEPT !.role = "admin"]}

Truthy(v) == v \notin {NoUser, NoRole, ""}

Segs == {"/", "/dashboard", "/employer", "/job-seeker", "/auth", "/signin",
         "/setup", "/jobs", "/reports", "s"}

RECURSIVE PathsOfLen(_)
PathsOfLen(n) ==
    IF n = 1 THEN Segs \ {"s"}
    ELSE {p \o s : p \in PathsOfLen(n - 1), s \in Segs}

RECURSIVE PathsUpTo(_)
PathsUpTo(n) == IF n = 0 THEN {} ELSE PathsOfLen(n) \cup PathsUpTo(n - 1)

Paths == PathsUpTo(MaxSegs)

\* the pages the application serves and links to
SitePaths == {"/", "/setup", "/auth/signin", "/dashboard",
              "/dashboard/employer", "/dashboard/job-seeker"}

\* the claim sets auth() / the token can present
ClaimSets ==
    {[userId |-> NoUser, role |-> NoRole]}
        \cup [userId : UserIds, role : RoleInputs]

(***************************************************************************)
(* Responses                                                               *)
(***************************************************************************)
PassThrough == [kind |-> "next", to |-> ""]          \* NextResponse.next()
Redirect(url) == [kind |-> "redirect", to |-> url]   \* NextResponse.redirect

\* slip: equality where the source tests a prefix
StartsWith_Exact(s, q) == s = q

\* String.prototype.startsWith
StartsWith(s, q) == Len(q) <= Len(s) /\ SubSeq(s, 1, Len(q)) = q

(***************************************************************************)
(* NextAuth variant, middleware.ts:1-79                                    *)
(***************************************************************************)
\* the page withAuth redirects to when authorized() answers false; the
\* options given to withAuth carry callbacks only, no pages
withAuthSignInPage == "/api/auth/signin"

\* callbacks.authorized
authorized(token, pathname) ==
    IF pathname = "/" \/ StartsWith(pathname, "/jobs")
          \/ StartsWith(pathname, "/api/auth")
    THEN TRUE
    ELSE IF StartsWith(pathname, "/auth/") THEN TRUE
    ELSE IF StartsWith(pathname, "/dashboard") THEN Truthy(token.userId)
    ELSE TRUE

\* slip: the two dashboard roots exchanged
dashboardUrl_Swapped(role) ==
    IF role = "employer" THEN "/dashboard/job-seeker" ELSE "/dashboard/employer"

\* const dashboardUrl = role === 'employer' ? ... : ...
dashboardUrl(role) ==
    IF role = "employer" THEN "/dashboard/employer" ELSE "/dashboard/job-seeker"

\* function middleware(req)
middleware(token, pathname) ==
    IF StartsWith(pathname, "/auth/") /\ ~Truthy(token.userId)
    THEN PassThrough
    ELSE IF StartsWith(pathname, "/auth/") /\ Truthy(token.userId)
    THEN Redirect(dashboardUrl(token.role))
    ELSE IF StartsWith(pathname, "/dashboard")
    THEN IF ~Truthy(token.userId)
         THEN Redirect("/auth/signin")
         ELSE IF StartsWith(pathname, "/dashboard/employer")
                    /\ token.role # "employer"
         THEN Redirect("/dashboard/job-seeker")
         ELSE IF StartsWith(pathname, "/dashboard/job-seeker")
                    /\ token.role # "job_seeker"
         THEN Redirect("/dashboard/employer")
         ELSE IF pathname = "/dashboard"
         THEN Redirect(dashboardUrl(token.role))
         ELSE PassThrough
    ELSE PassThrough

\* withAuth(middleware, {callbacks: {authorized}})
withAuth(token, pathname) ==
    IF authorized(token, pathname)
    THEN middleware(token, pathname)
    ELSE Redirect(withAuthSignInPage)

\* config.matcher: '/dashboard/:path*', '/auth/:path*'
nextAuthMatcher(pathname) ==
    \E base \in {"/dashboard", "/auth"} :
        pathname = base \/ StartsWith(pathname, base \o "/")

\* what a request gets in the NextAuth variant
nextAuthResponse(token, pathname) ==
    IF nextAuthMatcher(pathname) THEN withAuth(token, pathname) ELSE PassThrough

(***************************************************************************)
(* Clerk variant, middleware.ts:81-156                                     *)
(***************************************************************************)
\* createRouteMatcher(['/dashboard(.*)'])
isProtectedRoute(pathname) == StartsWith(pathname, "/dashboard")

\* slip: only paths below /auth/ count as auth routes
isAuthRoute_Slash(pathname) == StartsWith(pathname, "/auth/")

\* createRouteMatcher(['/auth(.*)'])
isAuthRoute(pathname) == StartsWith(pathname, "/auth")

\* slip: the role-based access control block (lines 128-135) left out
clerkMiddleware_NoRbac(userId, userRole, pathname) ==
    IF Truthy(userId) /\ ~Truthy(userRole) /\ pathname # "/setup"
    THEN Redirect("/setup")
    ELSE IF isAuthRoute(pathname) /\ Truthy(userId)
    THEN IF ~Truthy(userRole)
         THEN Redirect("/setup")
         ELSE Redirect(dashboardUrl(userRole))
    ELSE IF isProtectedRoute(pathname)
    THEN IF ~Truthy(userId)
         THEN Redirect("/auth/signin")
         ELSE IF ~Truthy(userRole)
         THEN Redirect("/setup")
         ELSE IF pathname = "/dashboard"
         THEN Redirect(dashboardUrl(userRole))
         ELSE PassThrough
    ELSE PassThrough

\* slip: the !userId branch of the dashboard block (lines 119-122) left out
clerkMiddleware_NoSignIn(userId, userRole, pathname) ==
    IF Truthy(userId) /\ ~Truthy(userRole) /\ pathname # "/setup"
    THEN Redirect("/setup")
    ELSE IF isAuthRoute(pathname) /\ Truthy(userId)
    THEN IF ~Truthy(userRole)
         THEN Redirect("/setup")
         ELSE Redirect(dashboardUrl(userRole))
    ELSE IF isProtectedRoute(pathname)
    THEN IF ~Truthy(userRole)
         THEN Redirect("/setup")
         ELSE IF StartsWith(pathname, "/dashboard/employer")
                    /\ userRole # "employer"
         THEN Redirect("/dashboard/job-seeker")
         ELSE IF StartsWith(pathname, "/dashboard/job-seeker")
                    /\ userRole # "job_seeker"
         THEN Redirect("/dashboard/employer")
         ELSE IF pathname = "/dashboard"
         THEN Redirect(dashboardUrl(userRole))
         ELSE PassThrough
    ELSE PassThrough

\* slip: the first test (line 102) without its pathname !== '/setup' conjunct
clerkMiddleware_SetupNotExempt(userId, userRole, pathname) ==
    IF Truthy(userId) /\ ~Truthy(userRole)
    THEN Redirect("/setup")
    ELSE IF isAuthRoute(pathname) /\ Truthy(userId)
    THEN Redirect(dashboardUrl(userRole))
    ELSE IF isProtectedRoute(pathname)
    THEN IF ~Truthy(userId)
         THEN Redirect("/auth/signin")
         ELSE IF StartsWith(pathname, "/dashboard/employer")
                    /\ userRole # "employer"
         THEN Redirect("/dashboard/job-seeker")
         ELSE IF StartsWith(pathname, "/dashboard/job-seeker")
                    /\ userRole # "job_seeker"
         THEN Redirect("/dashboard/employer")
         ELSE IF pathname = "/dashboard"
         THEN Redirect(dashboardUrl(userRole))
         ELSE PassThrough
    ELSE PassThrough

\* slip: the job seeker segment compared with the path spelling 'job-seeker'
\* instead of the role value 'job_seeker' (line 133)
clerkMiddleware_HyphenRole(userId, userRole, pathname) ==
    IF Truthy(userId) /\ ~Truthy(userRole) /\ pathname # "/setup"
    THEN Redirect("/setup")
    ELSE IF isAuthRoute(pathname) /\ Truthy(userId)
    THEN IF ~Truthy(userRole)
         THEN Redirect("/setup")
         ELSE Redirect(dashboardUrl(userRole))
    ELSE IF isProtectedRoute(pathname)
    THEN IF ~Truthy(userId)
         THEN Redirect("/auth/signin")
         ELSE IF ~Truthy(userRole)
         THEN Redirect("/setup")
         ELSE IF StartsWith(pathname, "/dashboard/employer")
                    /\ userRole # "employer"
         THEN Redirect("/dashboard/job-seeker")
         ELSE IF StartsWith(pathname, "/dashboard/job-seeker")
                    /\ userRole # "job-seeker"
         THEN Redirect("/dashboard/employer")
         ELSE IF pathname = "/dashboard"
         THEN Redirect(dashboardUrl(userRole))
         ELSE PassThrough
    ELSE PassThrough

\* the handler given to clerkMiddleware
clerkMiddleware(userId, userRole, pathname) ==
    IF Truthy(userId) /\ ~Truthy(userRole) /\ pathname # "/setup"
    THEN Redirect("/setup")
    ELSE IF isAuthRoute(pathname) /\ Truthy(userId)
    THEN IF ~Truthy(userRole)
         THEN Redirect("/setup")
         ELSE Redirect(dashboardUrl(userRole))
    ELSE IF isProtectedRoute(pathname)
    THEN IF ~Truthy(userId)
         THEN Redirect("/auth/signin")
         ELSE IF ~Truthy(userRole)
         THEN Redirect("/setup")
         ELSE IF StartsWith(pathname, "/dashboard/employer")
                    /\ userRole # "employer"
         THEN Redirect("/dashboard/job-seeker")
         ELSE IF StartsWith(pathname, "/dashboard/job-seeker")
                    /\ userRole # "job_seeker"
         THEN Redirect("/dashboard/employer")
         ELSE IF pathname = "/dashboard"
         THEN Redirect(dashboardUrl(userRole))
         ELSE PassThrough
    ELSE PassThrough

(***************************************************************************)
(* Evaluations                                                             *)
(***************************************************************************)
NoEval == [variant |-> "none", userId |-> NoUser, role |-> NoRole,
           path |-> "", outcome |-> PassThrough]

Evaluation(variant, claims, pathname, outcome) ==
    [variant |-> variant, userId |-> claims.userId, role |-> claims.role,
     path |-> pathname, outcome |-> outcome]

NoReq == [claims |-> [userId |-> NoUser, role |-> NoRole], path |-> ""]

NoResult == [status |-> "none"]
NoBody == [json |-> "none", name |-> Missing, email |-> Missing,
           password |-> Missing, role |-> Missing]
NoJson == [error |-> ""]
NoHttp == [body |-> NoBody, status |-> 0, json |-> NoJson, io |-> "ok"]
NoReply == [op |-> "none", email |-> Missing, password |-> Missing, id |-> 0,
            outcome |-> "none", user |-> [_id |-> 0], io |-> "ok"]
NoData == [name |-> "", email |-> "", password |-> "", role |-> ""]
IdleCall == [pc |-> "idle", data |-> NoData, users |-> <<>>, result |-> NoResult]

\* the state after start-up, before any request, with the given UserService
Start(r, b) ==
    /\ req = r
    /\ last = NoEval
    /\ prev = NoEval
    /\ clerkUsers = {}
    /\ publicMetadata = [u \in UserIds |-> NoRole]
    /\ updateRoleStatus = 0
    /\ backend = b
    /\ collection = <<>>
    /\ usersFile = <<>>
    /\ calls = [p \in Procs |-> IdleCall]
    /\ nextId = 1
    /\ http = [p \in Procs |-> NoHttp]
    /\ reply = NoReply

\* the provider-backed deployment: no UserService, identities live at Clerk
Init == Start(NoReq, "none")

\* every claim set and every path, before either variant has decided it
MwInit == \E r \in [claims : ClaimSets, path : Paths] : Start(r, "none")

\* a deployment with one of the two UserService implementations
StoreInit == \E b \in {"mongo", "file"} : Start(NoReq, b)

\* the NextAuth middleware decides the request; req.claims is the token
NextAuthEvaluate ==
    /\ last = NoEval
    /\ last' = Evaluation("nextauth", req.claims, req.path,
                          nextAuthResponse(req.claims, req.path))
    /\ UNCHANGED <<req, prev, clerkVars, storeVars>>

\* the Clerk middleware decides the request; req.claims is what auth() gave
ClerkEvaluate ==
    /\ last = NoEval
    /\ last' = Evaluation("clerk", req.claims, req.path,
                          clerkMiddleware(req.claims.userId, req.claims.role,
                                          req.path))
    /\ UNCHANGED <<req, prev, clerkVars, storeVars>>

MwNext == NextAuthEvaluate \/ ClerkEvaluate

\* the decision procedures of both variants on every claim set and path
MwSpec == MwInit /\ [][MwNext]_vars

(***************************************************************************)
(* The provider-backed system: sign-up, the user.created webhook, the      *)
(* role update route, and page requests through the Clerk middleware       *)
(***************************************************************************)
\* auth() for a caller: the identity and the role of its public metadata
authClaims(caller) ==
    [userId |-> caller,
     role |-> IF caller = NoUser THEN NoRole ELSE publicMetadata[caller]]

\* <SignUp redirectUrl="/setup" />: the provider creates an identity, no role
SignUp(u) ==
    /\ u \notin clerkUsers
    /\ clerkUsers' = clerkUsers \cup {u}
    /\ UNCHANGED <<req, last, prev, publicMetadata, updateRoleStatus, storeVars>>

\* POST webhook: a verified user.created event sets the default role
\* (svix headers present, signature verified, metadata update succeeded)
webhookEffect(id, hasHeaders, verified, eventType, providerUp) ==
    IF hasHeaders /\ verified /\ eventType = "user.created" /\ providerUp
    THEN [publicMetadata EXCEPT ![id] = "job_seeker"]
    ELSE publicMetadata

WebhookUserCreated(id, hasHeaders, verified, eventType, providerUp) ==
    /\ id \in clerkUsers
    /\ publicMetadata' =
         webhookEffect(id, hasHeaders, verified, eventType, providerUp)
    /\ UNCHANGED <<req, last, prev, clerkUsers, updateRoleStatus, storeVars>>

UpdateRolePath == "/api/user/update-role"
Malformed == "<not json>"
UpdateRoleBodies == {Malformed} \cup RoleInputs

\* POST /api/user/update-role: the status, and whether the metadata is written
updateRoleHandler(caller, body, providerUp) ==
    IF ~Truthy(caller) THEN [status |-> 401, write |-> FALSE]
    ELSE IF body = Malformed THEN [status |-> 500, write |-> FALSE]
    ELSE IF ~Truthy(body) \/ body \notin {"job_seeker", "employer"}
    THEN [status |-> 400, write |-> FALSE]
    ELSE IF ~providerUp THEN [status |-> 500, write |-> FALSE]
    ELSE [status |-> 200, write |-> TRUE]

\* a POST to /api/user/update-role: the middleware runs first (the matcher
\* always runs for API routes); the route handler runs only when it passes
updateRoleAnswer(caller, body, providerUp) ==
    LET c == authClaims(caller)
        gate == clerkMiddleware(c.userId, c.role, UpdateRolePath)
    IN  IF gate # PassThrough
        THEN [status |-> 307, write |-> FALSE]
        ELSE updateRoleHandler(caller, body, providerUp)

\* slip: the metadata is written for the userId of the request body
updateRoleTarget_FromBody(caller, bodyUserId) == bodyUserId

\* updateUserMetadata(userId, ...): userId is the one auth() returned; the
\* userId of the body ({ role } = await req.json()) is not read
updateRoleTarget(caller, bodyUserId) == caller

\* the metadata after a role update sent by caller with body
\* { userId: bodyUserId, role: body }
updateRoleEffect(caller, bodyUserId, body, providerUp) ==
    IF updateRoleAnswer(caller, body, providerUp).write
    THEN [publicMetadata EXCEPT
             ![updateRoleTarget(caller, bodyUserId)] = body]
    ELSE publicMetadata

UpdateRole(caller, bodyUserId, body, providerUp) ==
    /\ caller \in clerkUsers \cup {NoUser}
    /\ updateRoleStatus' = updateRoleAnswer(caller, body, providerUp).status
    /\ publicMetadata' = updateRoleEffect(caller, bodyUserId, body, providerUp)
    /\ UNCHANGED <<req, last, prev, clerkUsers, storeVars>>

\* RoleSelector.handleRoleUpdate (lines 11-38): the POST to
\* /api/user/update-role with { userId: user.id, role: selectedRole }, whose
\* answer is not looked at, then the navigation to the dashboard of the
\* selected role; both requests go through the middleware
selectorDashboardUrl(selectedRole) ==
    IF selectedRole = "employer"
    THEN "/dashboard/employer" ELSE "/dashboard/job-seeker"

roleSelectionFlow(user, selectedRole) ==
    LET saved == updateRoleEffect(user, user, selectedRole, TRUE)
    IN  [status |-> updateRoleAnswer(user, selectedRole, TRUE).status,
         metadata |-> saved,
         landing |-> clerkMiddleware(user, saved[user],
                                     selectorDashboardUrl(selectedRole))]

\* slip: the middleware stores the default role for a caller without one
ClerkRequest_AssignsDefault(caller, pathname) ==
    /\ caller \in clerkUsers \cup {NoUser}
    /\ LET c == authClaims(caller)
       IN  /\ last' = Evaluation("clerk", c, pathname,
                         clerkMiddleware(c.userId, c.role, pathname))
           /\ publicMetadata' =
                IF Truthy(caller) /\ ~Truthy(c.role)
                THEN [publicMetadata EXCEPT ![caller] = "job_seeker"]
                ELSE publicMetadata
    /\ prev' = last
    /\ UNCHANGED <<req, clerkUsers, updateRoleStatus, storeVars>>

\* a page request of a signed-in or anonymous caller through the middleware
ClerkRequest(caller, pathname) ==
    /\ caller \in clerkUsers \cup {NoUser}
    /\ LET c == authClaims(caller)
       IN  last' = Evaluation("clerk", c, pathname,
                              clerkMiddleware(c.userId, c.role, pathname))
    /\ prev' = last
    /\ UNCHANGED <<req, clerkVars, storeVars>>

Next ==
    \/ \E u \in UserIds : SignUp(u)
    \/ \E u \in UserIds, h \in BOOLEAN, v \in BOOLEAN,
          t \in {"user.created", "user.updated"}, up \in BOOLEAN :
            WebhookUserCreated(u, h, v, t, up)
    \/ \E c \in UserIds \cup {NoUser}, t \in UserIds,
          b \in UpdateRoleBodies, up \in BOOLEAN :
            UpdateRole(c, t, b, up)
    \/ \E c \in UserIds \cup {NoUser}, p \in SitePaths : ClerkRequest(c, p)

Spec == Init /\ [][Next]_vars

(***************************************************************************)
(* UserService.createUser, lib/userService (auth.ts:161-336)               *)
(***************************************************************************)
BcryptCost == 12
BcryptMaxBytes == 72     \* bcrypt reads no more than 72 bytes of its input
SaltLen == 6             \* length of the salts of Salts

\* the part of the password bcrypt's key schedule reads
bcryptInput(password) ==
    IF Len(password) > BcryptMaxBytes
    THEN SubSeq(password, 1, BcryptMaxBytes)
    ELSE password

\* bcrypt.hash(password, 12) with the salt the generator drew: version and
\* cost, the salt, and a digest determined by the salt and the input read
bcryptHash(password, salt) ==
    "$2a$" \o ToString(BcryptCost) \o "$" \o salt
        \o "H(" \o salt \o ":" \o bcryptInput(password) \o ")"

\* bcrypt.compare: hash the candidate under the salt kept in the hash;
\* false for a string that is no bcrypt hash
bcryptCompare(password, hash) ==
    /\ StartsWith(hash, "$2a$" \o ToString(BcryptCost) \o "$")
    /\ Len(hash) > 7 + SaltLen
    /\ bcryptHash(password, SubSeq(hash, 8, 7 + SaltLen)) = hash

typeof(v) ==
    IF v = Missing THEN "undefined"
    ELSE IF v = NumberValue THEN "number" ELSE "string"

\* the error bcrypt.hash(s, 12) rejects with when s is no string
BcryptIllegalArguments(v) == "Illegal arguments: " \o typeof(v) \o ", number"

DuplicateMessage == "User already exists with this email"
Threw(msg) == [status |-> "threw", message |-> msg]
Returned(user) == [status |-> "ok", user |-> user]

\* slip: the record is handed out as stored
withoutPassword_Whole(user) == user

\* const { password, ...userWithoutPassword } = user
withoutPassword(user) ==
    [f \in DOMAIN user \ {"password"} |-> user[f]]

newUserRecord(id, data, salt) ==
    [_id |-> id, name |-> data.name, email |-> data.email,
     password |-> bcryptHash(data.password, salt), role |-> data.role]

\* collection.findOne({ email }) / users.find(user => user.email === email)
findByEmail(users, email) ==
    {i \in 1..Len(users) : users[i].email = email}

\* the records of the backend in use
store == IF backend = "mongo" THEN collection ELSE usersFile

Idle(p) == calls[p].pc \in {"idle", "done"}

\* slip: the duplicate check (lines 265-268) left out
MongoCreateFind_NoCheck(p, data) ==
    /\ backend = "mongo"
    /\ Idle(p)
    /\ calls' = [calls EXCEPT ![p] =
         [pc |-> "insert", data |-> data, users |-> <<>>,
          result |-> NoResult]]
    /\ UNCHANGED <<req, last, prev, clerkVars, backend, collection, usersFile,
                   nextId>>

\* document store, createUser up to the duplicate check (lines 261-268)
MongoCreateFind(p, data) ==
    /\ backend = "mongo"
    /\ Idle(p)
    /\ calls' = [calls EXCEPT ![p] =
         IF findByEmail(collection, data.email) # {}
         THEN [pc |-> "done", data |-> data, users |-> <<>>,
               result |-> Threw(DuplicateMessage)]
         ELSE [pc |-> "insert", data |-> data, users |-> <<>>,
               result |-> NoResult]]
    /\ UNCHANGED <<req, last, prev, clerkVars, backend, collection, usersFile,
                   nextId>>

\* document store, createUser from the hash to the return (lines 270-293);
\* bcrypt.hash rejects when the password is no string
MongoCreateInsert(p, salt) ==
    /\ backend = "mongo"
    /\ calls[p].pc = "insert"
    /\ Len(collection) < MaxUsers
    /\ IF ~IsString(calls[p].data.password)
       THEN /\ calls' = [calls EXCEPT ![p].pc = "done",
                            ![p].result = Threw(BcryptIllegalArguments(calls[p].data.password))]
            /\ UNCHANGED <<collection, nextId>>
       ELSE LET newUser == newUserRecord(nextId, calls[p].data, salt)
            IN  /\ collection' = Append(collection, newUser)
                /\ calls' = [calls EXCEPT ![p].pc = "done",
                                ![p].result =
                                    Returned(withoutPassword(newUser))]
                /\ nextId' = nextId + 1
    /\ UNCHANGED <<req, last, prev, clerkVars, backend, usersFile>>

\* file store, createUser up to the duplicate check (lines 194-201):
\* loadUsers reads the whole array
FileCreateLoad(p, data) ==
    /\ backend = "file"
    /\ Idle(p)
    /\ calls' = [calls EXCEPT ![p] =
         IF findByEmail(usersFile, data.email) # {}
         THEN [pc |-> "done", data |-> data, users |-> usersFile,
               result |-> Threw(DuplicateMessage)]
         ELSE [pc |-> "save", data |-> data, users |-> usersFile,
               result |-> NoResult]]
    /\ UNCHANGED <<req, last, prev, clerkVars, backend, collection, usersFile,
                   nextId>>

\* file store, createUser from the hash to the return (lines 203-224):
\* the new record is pushed on the loaded array and saveUsers writes it all
FileCreateSave(p, salt) ==
    /\ backend = "file"
    /\ calls[p].pc = "save"
    /\ Len(calls[p].users) < MaxUsers
    /\ IF ~IsString(calls[p].data.password)
       THEN /\ calls' = [calls EXCEPT ![p].pc = "done",
                            ![p].result = Threw(BcryptIllegalArguments(calls[p].data.password))]
            /\ UNCHANGED <<usersFile, nextId>>
       ELSE LET newUser == newUserRecord(nextId, calls[p].data, salt)
            IN  /\ usersFile' = Append(calls[p].users, newUser)
                /\ calls' = [calls EXCEPT ![p].pc = "done",
                                ![p].result =
                                    Returned(withoutPassword(newUser))]
                /\ nextId' = nextId + 1
    /\ UNCHANGED <<req, last, prev, clerkVars, backend, collection>>

(***************************************************************************)
(* Storage failures.  The driver rejects a findOne or an insertOne; a      *)
(* write of the users file throws; a read of the users file that fails is  *)
(* caught by loadUsers, which then returns the empty array (lines 179-187).*)
(***************************************************************************)
MongoError == "MongoNetworkError: connection closed"
FsError == "EIO: i/o error, write"

MongoCreateFindFails(p, data) ==
    /\ backend = "mongo"
    /\ Idle(p)
    /\ calls' = [calls EXCEPT ![p] =
         [pc |-> "done", data |-> data, users |-> <<>>,
          result |-> Threw(MongoError)]]
    /\ UNCHANGED <<req, last, prev, clerkVars, backend, collection, usersFile,
                   nextId>>

MongoCreateInsertFails(p) ==
    /\ backend = "mongo"
    /\ calls[p].pc = "insert"
    /\ calls' = [calls EXCEPT ![p].pc = "done",
                    ![p].result =
                        IF ~IsString(calls[p].data.password)
                        THEN Threw(BcryptIllegalArguments(
                                       calls[p].data.password))
                        ELSE Threw(MongoError)]
    /\ UNCHANGED <<req, last, prev, clerkVars, backend, collection, usersFile,
                   nextId>>

\* loadUsers returns [] for a file it could not read: no duplicate is found
FileCreateLoadFails(p, data) ==
    /\ backend = "file"
    /\ Idle(p)
    /\ calls' = [calls EXCEPT ![p] =
         [pc |-> "save", data |-> data, users |-> <<>>,
          result |-> NoResult]]
    /\ UNCHANGED <<req, last, prev, clerkVars, backend, collection, usersFile,
                   nextId>>

FileCreateSaveFails(p) ==
    /\ backend = "file"
    /\ calls[p].pc = "save"
    /\ calls' = [calls EXCEPT ![p].pc = "done",
                    ![p].result =
                        IF ~IsString(calls[p].data.password)
                        THEN Threw(BcryptIllegalArguments(
                                       calls[p].data.password))
                        ELSE Threw(FsError)]
    /\ UNCHANGED <<req, last, prev, clerkVars, backend, collection, usersFile,
                   nextId>>

NoCallInFlight == \A q \in Procs : Idle(q)

\* createUser calls made one after the other, none overlapping another
SeqStoreNext ==
    \/ \E p \in Procs, d \in SomeRegistrations :
          NoCallInFlight /\ MongoCreateFind(p, d) /\ UNCHANGED <<http, reply>>
    \/ \E p \in Procs, s \in Salts :
          MongoCreateInsert(p, s) /\ UNCHANGED <<http, reply>>
    \/ \E p \in Procs, d \in SomeRegistrations :
          NoCallInFlight /\ FileCreateLoad(p, d) /\ UNCHANGED <<http, reply>>
    \/ \E p \in Procs, s \in Salts :
          FileCreateSave(p, s) /\ UNCHANGED <<http, reply>>

SeqStoreSpec == StoreInit /\ [][SeqStoreNext]_vars

\* createUser called directly, one call after the other, with arguments
\* that no HTTP handler has validated
DirectNext ==
    \/ \E p \in Procs, d \in DirectCalls :
          NoCallInFlight /\ MongoCreateFind(p, d) /\ UNCHANGED <<http, reply>>
    \/ \E p \in Procs, s \in Salts :
          MongoCreateInsert(p, s) /\ UNCHANGED <<http, reply>>
    \/ \E p \in Procs, d \in DirectCalls :
          NoCallInFlight /\ FileCreateLoad(p, d) /\ UNCHANGED <<http, reply>>
    \/ \E p \in Procs, s \in Salts :
          FileCreateSave(p, s) /\ UNCHANGED <<http, reply>>

DirectSpec == StoreInit /\ [][DirectNext]_vars

(***************************************************************************)
(* POST /api/auth/register (register/route.ts).  A request body is what    *)
(* request.json() makes of it: an object with the four fields (a field may *)
(* be missing or hold a number), the JSON value null, or no JSON at all.   *)
(***************************************************************************)
JsonObject(data) ==
    [json |-> "object", name |-> data.name, email |-> data.email,
     password |-> data.password, role |-> data.role]

JsonNull == [NoBody EXCEPT !.json = "null"]
NotJson == [NoBody EXCEPT !.json = "invalid"]

RegisterBodies ==
    {JsonObject(d) : d \in SomeRegistrations} \cup
    {JsonObject([BaseRegistration EXCEPT !.password = "abcde"]),
     JsonObject([BaseRegistration EXCEPT !.password = Missing]),
     JsonObject([BaseRegistration EXCEPT !.password = NumberValue]),
     JsonObject([BaseRegistration EXCEPT !.name = Missing]),
     JsonObject([BaseRegistration EXCEPT !.email = Missing]),
     JsonObject([BaseRegistration EXCEPT !.email = "ann.x.io"]),
     JsonObject([BaseRegistration EXCEPT !.role = Missing]),
     JsonObject([BaseRegistration EXCEPT !.role = "admin"]),
     JsonNull, NotJson}

\* the UserRegistration the handler passes on to createUser
registrationOf(body) ==
    [name |-> body.name, email |-> body.email, password |-> body.password,
     role |-> body.role]

CharAt(s, i) == SubSeq(s, i, i)
Whitespace == {" ", "\t", "\n", "\r"}

\* [^\s@]+ matched against the characters i..j of s
NoSpaceNoAt(s, i, j) ==
    i <= j /\ \A k \in i..j : CharAt(s, k) \notin Whitespace \cup {"@"}

\* /^[^\s@]+@[^\s@]+\.[^\s@]+$/.test(s)
emailRegexTest(s) ==
    \E a \in 2..Len(s) :
        /\ CharAt(s, a) = "@"
        /\ NoSpaceNoAt(s, 1, a - 1)
        /\ \E d \in (a + 2)..(Len(s) - 1) :
              /\ CharAt(s, d) = "."
              /\ NoSpaceNoAt(s, a + 1, d - 1)
              /\ NoSpaceNoAt(s, d + 1, Len(s))

MinPasswordLength == 6
InternalServerError == "Internal server error"

Response(status, msg) == [status |-> status, json |-> [error |-> msg]]
Proceed == [status |-> 0, json |-> NoJson]

\* slip: the role check (lines 17-23) left out
registerValidation_NoRoleCheck(body) ==
    IF body.json # "object"
    THEN Response(500, InternalServerError)
    ELSE IF ~Truthy(body.name) \/ ~Truthy(body.email)
            \/ ~Truthy(body.password) \/ ~Truthy(body.role)
    THEN Response(400, "All fields are required")
    ELSE IF ~emailRegexTest(body.email)
    THEN Response(400, "Invalid email format")
    ELSE IF IsString(body.password) /\ Len(body.password) < MinPasswordLength
    THEN Response(400, "Password must be at least 6 characters long")
    ELSE Proceed

\* slip: a password of exactly six characters counts as too short
registerValidation_LengthOffByOne(body) ==
    IF body.json # "object"
    THEN Response(500, InternalServerError)
    ELSE IF ~Truthy(body.name) \/ ~Truthy(body.email)
            \/ ~Truthy(body.password) \/ ~Truthy(body.role)
    THEN Response(400, "All fields are required")
    ELSE IF body.role \notin {"job_seeker", "employer"}
    THEN Response(400, "Invalid role. Must be either job_seeker or employer")
    ELSE IF ~emailRegexTest(body.email)
    THEN Response(400, "Invalid email format")
    ELSE IF IsString(body.password) /\ Len(body.password) <= MinPasswordLength
    THEN Response(400, "Password must be at least 6 characters long")
    ELSE Proceed

\* lines 7-40: request.json() and the four checks.  request.json() rejects
\* when the body is no JSON and reading a field of null throws: both end in
\* the catch (lines 57-70); the length of a number is undefined, and
\* undefined < 6 is false
registerValidation(body) ==
    IF body.json # "object"
    THEN Response(500, InternalServerError)
    ELSE IF ~Truthy(body.name) \/ ~Truthy(body.email)
            \/ ~Truthy(body.password) \/ ~Truthy(body.role)
    THEN Response(400, "All fields are required")
    ELSE IF body.role \notin {"job_seeker", "employer"}
    THEN Response(400, "Invalid role. Must be either job_seeker or employer")
    ELSE IF ~emailRegexTest(body.email)
    THEN Response(400, "Invalid email format")
    ELSE IF IsString(body.password) /\ Len(body.password) < MinPasswordLength
    THEN Response(400, "Password must be at least 6 characters long")
    ELSE Proceed

\* what the checks answer to each of the bodies
Validation ==
    [body \in RegisterBodies \cup {JsonObject(d) : d \in AuthRegistrations}
        |-> registerValidation(body)]

\* slip: the catch does not tell the duplicate error from other errors
registerResponse_NoConflict(result) ==
    IF result.status = "none" THEN Proceed
    ELSE IF result.status = "ok"
    THEN [status |-> 201,
          json |-> [message |-> "User created successfully",
                    user |-> [id |-> result.user._id,
                              name |-> result.user.name,
                              email |-> result.user.email,
                              role |-> result.user.role]]]
    ELSE Response(500, InternalServerError)

\* lines 43-70: the response made of what createUser returned or threw
registerResponse(result) ==
    IF result.status = "none" THEN Proceed
    ELSE IF result.status = "ok"
    THEN [status |-> 201,
          json |-> [message |-> "User created successfully",
                    user |-> [id |-> result.user._id,
                              name |-> result.user.name,
                              email |-> result.user.email,
                              role |-> result.user.role]]]
    ELSE IF result.message = DuplicateMessage
    THEN Response(409, DuplicateMessage)
    ELSE Response(500, InternalServerError)

\* the request of p is inside createUser
Pending(p) == http[p].body # NoBody /\ http[p].status = 0

\* io tells whether a storage operation failed while the request was served
Answer(p, body, r) ==
    http' = [http EXCEPT ![p] =
                [body |-> body, status |-> r.status, json |-> r.json,
                 io |-> IF Pending(p) THEN http[p].io ELSE "ok"]]

AnswerAfterFailure(p, body, r) ==
    http' = [http EXCEPT ![p] =
                [body |-> body, status |-> r.status, json |-> r.json,
                 io |-> "failed"]]

\* a request arrives: parsed and validated, and, when valid, createUser
\* runs up to its duplicate check
RegisterFind(p, body) ==
    /\ backend = "mongo"
    /\ Idle(p)
    /\ IF Validation[body] # Proceed
       THEN /\ Answer(p, body, Validation[body])
            /\ UNCHANGED <<req, last, prev, clerkVars, backend, collection,
                           usersFile, calls, nextId>>
       ELSE /\ MongoCreateFind(p, registrationOf(body))
            /\ Answer(p, body, registerResponse(calls'[p].result))
    /\ UNCHANGED reply

\* createUser finishes and the handler answers
RegisterInsert(p, salt) ==
    /\ Pending(p)
    /\ MongoCreateInsert(p, salt)
    /\ Answer(p, http[p].body, registerResponse(calls'[p].result))
    /\ UNCHANGED reply

\* the same handler over the file store
RegisterLoad(p, body) ==
    /\ backend = "file"
    /\ Idle(p)
    /\ IF Validation[body] # Proceed
       THEN /\ Answer(p, body, Validation[body])
            /\ UNCHANGED <<req, last, prev, clerkVars, backend, collection,
                           usersFile, calls, nextId>>
       ELSE /\ FileCreateLoad(p, registrationOf(body))
            /\ Answer(p, body, registerResponse(calls'[p].result))
    /\ UNCHANGED reply

RegisterSave(p, salt) ==
    /\ Pending(p)
    /\ FileCreateSave(p, salt)
    /\ Answer(p, http[p].body, registerResponse(calls'[p].result))
    /\ UNCHANGED reply

(***************************************************************************)
(* Lookups and login (auth.ts): findUserByEmail, findUserById and the      *)
(* authorize callback of the credentials provider.  Each reads the store   *)
(* once; reply holds what the caller got back.                             *)
(***************************************************************************)
NoRecord == [_id |-> 0]
Reply(op, email, password, id, outcome, user) ==
    [op |-> op, email |-> email, password |-> password, id |-> id,
     outcome |-> outcome, user |-> user, io |-> "ok"]

\* what the caller got back from a call during which the storage failed
ReplyAfterFailure(op, email, password, id, outcome, user) ==
    [op |-> op, email |-> email, password |-> password, id |-> id,
     outcome |-> outcome, user |-> user, io |-> "failed"]

\* findUserByEmail: the stored record as it is, password hash included
findUserByEmail(email) ==
    LET hits == findByEmail(store, email)
    IN  IF hits = {} THEN NoRecord
        ELSE store[CHOOSE i \in hits : \A k \in hits : i <= k]

FindUserByEmail(email) ==
    /\ backend \in {"mongo", "file"}
    /\ reply' = Reply("findUserByEmail", email, Missing, 0,
                      IF findUserByEmail(email) = NoRecord
                      THEN "null" ELSE "user",
                      findUserByEmail(email))
    /\ UNCHANGED <<req, last, prev, clerkVars, backend, collection, usersFile,
                   calls, nextId, http>>

\* findUserByEmail while the storage fails: the driver's rejection reaches
\* the caller of the document store; loadUsers of the file store catches
\* the read error and returns [], so the caller gets null
FindUserByEmailFails(email) ==
    /\ backend \in {"mongo", "file"}
    /\ reply' = ReplyAfterFailure("findUserByEmail", email, Missing, 0,
                                  IF backend = "mongo" THEN "threw" ELSE "null",
                                  NoRecord)
    /\ UNCHANGED <<req, last, prev, clerkVars, backend, collection, usersFile,
                   calls, nextId, http>>

\* findUserById: the record without its password, or null
FindUserById(id) ==
    /\ backend \in {"mongo", "file"}
    /\ LET hits == {i \in 1..Len(store) : store[i]._id = id}
       IN  reply' =
             IF hits = {}
             THEN Reply("findUserById", Missing, Missing, id, "null", NoRecord)
             ELSE Reply("findUserById", Missing, Missing, id, "user",
                        withoutPassword(
                            store[CHOOSE i \in hits : \A k \in hits : i <= k]))
    /\ UNCHANGED <<req, last, prev, clerkVars, backend, collection, usersFile,
                   calls, nextId, http>>

\* UserService.verifyPassword
verifyPassword(plainPassword, hashedPassword) ==
    bcryptCompare(plainPassword, hashedPassword)

\* slip: an unknown email is reported with an error of its own
authorize_TellsUnknownEmail(email, password) ==
    IF ~Truthy(email) \/ ~Truthy(password)
    THEN [outcome |-> "threw", user |-> NoRecord]
    ELSE LET user == findUserByEmail(email)
         IN  IF user = NoRecord
             THEN [outcome |-> "threw", user |-> NoRecord]
             ELSE IF ~Truthy(user.password)
             THEN [outcome |-> "null", user |-> NoRecord]
             ELSE IF ~verifyPassword(password, user.password)
             THEN [outcome |-> "null", user |-> NoRecord]
             ELSE [outcome |-> "user",
                   user |-> [id |-> user._id, email |-> user.email,
                             name |-> user.name, role |-> user.role]]

\* authorize(credentials): rejects when a credential is missing; null for
\* an unknown email, a record without a hash or a password that does not
\* verify; otherwise id, email, name and role of the record
authorize(email, password) ==
    IF ~Truthy(email) \/ ~Truthy(password)
    THEN [outcome |-> "threw", user |-> NoRecord]
    ELSE LET user == findUserByEmail(email)
         IN  IF user = NoRecord \/ ~Truthy(user.password)
             THEN [outcome |-> "null", user |-> NoRecord]
             ELSE IF ~verifyPassword(password, user.password)
             THEN [outcome |-> "null", user |-> NoRecord]
             ELSE [outcome |-> "user",
                   user |-> [id |-> user._id, email |-> user.email,
                             name |-> user.name, role |-> user.role]]

\* the token and the session NextAuth starts from: no id, no role
EmptyToken == [id |-> Missing, role |-> Missing]
EmptySession == [user |-> [id |-> Missing, role |-> Missing]]

\* callbacks.jwt: if (user) { token.role = user.role; token.id = user.id };
\* user is given at sign-in only
jwt(token, user) ==
    IF user = NoRecord THEN token
    ELSE [token EXCEPT !.role = user.role, !.id = user.id]

\* callbacks.session: session.user.id = token.id; session.user.role =
\* token.role
session(sess, token) ==
    [sess EXCEPT !.user.id = token.id, !.user.role = token.role]

Authorize(email, password) ==
    /\ backend \in {"mongo", "file"}
    /\ reply' = Reply("authorize", email, password, 0,
                      authorize(email, password).outcome,
                      authorize(email, password).user)
    /\ UNCHANGED <<req, last, prev, clerkVars, backend, collection, usersFile,
                   calls, nextId, http>>

LoginEmails == Emails \cup {Missing}
LoginPasswords ==
    {"secret1", "secret", "Secret1", LongPassword, LongPrefix, Missing}

AuthNext ==
    \/ \E b \in AuthRegistrations : RegisterFind("p1", JsonObject(b))
    \/ \E s \in Salts : RegisterInsert("p1", s)
    \/ \E b \in AuthRegistrations : RegisterLoad("p1", JsonObject(b))
    \/ \E s \in Salts : RegisterSave("p1", s)
    \/ \E e \in Emails : FindUserByEmail(e)
    \/ \E i \in 1..MaxUsers : FindUserById(i)
    \/ \E e \in LoginEmails, pw \in LoginPasswords : Authorize(e, pw)

AuthSpec == StoreInit /\ [][AuthNext]_vars

\* stores a login can meet: records createUser wrote and a record without
\* a password (User.password is optional)
SeededRecords ==
    {[_id |-> 1, name |-> "Ann", email |-> "ann@x.io",
      password |-> bcryptHash("secret1", "salt_a"), role |-> "job_seeker"],
     [_id |-> 2, name |-> "Ann", email |-> "bob@x.io",
      password |-> Missing, role |-> "employer"]}

SeededStores ==
    {<<>>} \cup {<<r>> : r \in SeededRecords}
           \cup {<<r, q>> : <<r, q>> \in
                     {pr \in SeededRecords \X SeededRecords : pr[1] # pr[2]}}

LoginInit ==
    /\ req = NoReq
    /\ last = NoEval
    /\ prev = NoEval
    /\ clerkUsers = {}
    /\ publicMetadata = [u \in UserIds |-> NoRole]
    /\ updateRoleStatus = 0
    /\ backend \in {"mongo", "file"}
    /\ \E users \in SeededStores :
          /\ collection = IF backend = "mongo" THEN users ELSE <<>>
          /\ usersFile = IF backend = "file" THEN users ELSE <<>>
    /\ calls = [p \in Procs |-> IdleCall]
    /\ nextId = 3
    /\ http = [p \in Procs |-> NoHttp]
    /\ reply = NoReply

\* logins against a store that does not change
LoginNext ==
    \E e \in LoginEmails, pw \in LoginPasswords : Authorize(e, pw)

LoginSpec == LoginInit /\ [][LoginNext]_vars

\* the same requests with a storage operation failing
RegisterFindFails(p, body) ==
    /\ Validation[body] = Proceed
    /\ MongoCreateFindFails(p, registrationOf(body))
    /\ AnswerAfterFailure(p, body, registerResponse(calls'[p].result))
    /\ UNCHANGED reply

RegisterInsertFails(p) ==
    /\ Pending(p)
    /\ MongoCreateInsertFails(p)
    /\ AnswerAfterFailure(p, http[p].body,
                          registerResponse(calls'[p].result))
    /\ UNCHANGED reply

RegisterLoadFails(p, body) ==
    /\ Validation[body] = Proceed
    /\ FileCreateLoadFails(p, registrationOf(body))
    /\ AnswerAfterFailure(p, body, registerResponse(calls'[p].result))
    /\ UNCHANGED reply

RegisterSaveFails(p) ==
    /\ Pending(p)
    /\ FileCreateSaveFails(p)
    /\ AnswerAfterFailure(p, http[p].body,
                          registerResponse(calls'[p].result))
    /\ UNCHANGED reply

\* the bodies a client submits: the first client any of them, the client
\* whose requests overlap with the first one's the well-formed ones (a
\* request that fails validation touches nothing another request reads)
BodiesOf(p) ==
    IF p = "p1" THEN RegisterBodies
    ELSE {JsonObject(d) : d \in SomeRegistrations}

\* the deployments: the provider-backed one has no user store, the
\* session-based one keeps its users in the document store or in the file
ApiInit == \E b \in {"none", "mongo", "file"} : Start(NoReq, b)

\* the HTTP endpoints that write: registration, with requests overlapping,
\* and, in the provider-backed deployment, sign-up, webhook and role update
ApiNext ==
    \/ \E p \in Procs : \E b \in BodiesOf(p) : RegisterFind(p, b)
    \/ \E p \in Procs, s \in {"salt_a"} :
          nextId <= MaxCreates /\ RegisterInsert(p, s)
    \/ \E p \in Procs : \E b \in BodiesOf(p) : RegisterLoad(p, b)
    \/ \E p \in Procs, s \in {"salt_a"} :
          nextId <= MaxCreates /\ RegisterSave(p, s)
    \/ \E u \in UserIds : backend = "none" /\ SignUp(u)
    \/ \E u \in UserIds, h \in BOOLEAN, v \in BOOLEAN,
          t \in {"user.created", "user.updated"}, up \in BOOLEAN :
            backend = "none" /\ WebhookUserCreated(u, h, v, t, up)
    \/ \E c \in UserIds \cup {NoUser}, t \in UserIds,
          b \in UpdateRoleBodies, up \in BOOLEAN :
            backend = "none" /\ UpdateRole(c, t, b, up)

ApiSpec == ApiInit /\ [][ApiNext]_vars

\* the same endpoints over a store whose operations may fail
ApiFaultNext ==
    \/ ApiNext
    \/ \E p \in Procs : \E b \in BodiesOf(p) : RegisterFindFails(p, b)
    \/ \E p \in Procs : RegisterInsertFails(p)
    \/ \E p \in Procs : \E b \in BodiesOf(p) : RegisterLoadFails(p, b)
    \/ \E p \in Procs : RegisterSaveFails(p)

ApiFaultSpec == ApiInit /\ [][ApiFaultNext]_vars

\* the user service, called by one registration after the other and by
\* lookups, over a store whose reads and writes may fail
ServiceFaultNext ==
    \/ \E d \in SomeRegistrations : RegisterFind("p1", JsonObject(d))
    \/ \E s \in Salts : nextId <= MaxCreates /\ RegisterInsert("p1", s)
    \/ \E d \in SomeRegistrations : RegisterLoad("p1", JsonObject(d))
    \/ \E s \in Salts : nextId <= MaxCreates /\ RegisterSave("p1", s)
    \/ \E d \in SomeRegistrations : RegisterFindFails("p1", JsonObject(d))
    \/ RegisterInsertFails("p1")
    \/ \E d \in SomeRegistrations : RegisterLoadFails("p1", JsonObject(d))
    \/ RegisterSaveFails("p1")
    \/ \E e \in Emails : FindUserByEmail(e)
    \/ \E e \in Emails : FindUserByEmailFails(e)

ServiceFaultSpec == StoreInit /\ [][ServiceFaultNext]_vars

\* createUser called directly by overlapping callers, in every interleaving
\* of the lookups and the writes
StoreNext ==
    \/ \E p \in Procs, d \in SomeRegistrations :
          MongoCreateFind(p, d) /\ UNCHANGED <<http, reply>>
    \/ \E p \in Procs, s \in Salts :
          /\ nextId <= MaxCreates
          /\ MongoCreateInsert(p, s) /\ UNCHANGED <<http, reply>>
    \/ \E p \in Procs, d \in SomeRegistrations :
          FileCreateLoad(p, d) /\ UNCHANGED <<http, reply>>
    \/ \E p \in Procs, s \in Salts :
          /\ nextId <= MaxCreates
          /\ FileCreateSave(p, s) /\ UNCHANGED <<http, reply>>

StoreSpec == StoreInit /\ [][StoreNext]_vars

(***************************************************************************)
(* Vocabulary of the properties                                            *)
(***************************************************************************)
\* base itself or a path below it
Under(p, base) == p = base \/ StartsWith(p, base \o "/")

Decided == last.variant # "none"
HasIdentity(e) == e.userId # NoUser
HasRole(e) == e.role # NoRole
IsRedirect(o) == o.kind = "redirect"

SignInPages == {"/auth/signin", withAuthSignInPage}
IsSignInRedirect(o) == IsRedirect(o) /\ o.to \in SignInPages

RoleRoot == [employer |-> "/dashboard/employer",
             job_seeker |-> "/dashboard/job-seeker"]

\* the dashboard root of a role of the enum; no page for any other value
OwnRoot(role) == IF role \in Roles THEN RoleRoot[role] ELSE "<none>"

\* a path of neither the dashboard class nor the auth class
PublicPath(p) == ~StartsWith(p, "/dashboard") /\ ~StartsWith(p, "/auth")

(***************************************************************************)
(* C1: a path under /dashboard/employer passes through only for a caller   *)
(* with an identity and role employer, a path under /dashboard/job-seeker  *)
(* only for a caller with an identity and role job_seeker; every other     *)
(* caller is redirected there.  Both variants.                             *)
(***************************************************************************)
C1_DashboardSegmentsRoleGated ==
    Decided =>
      /\ Under(last.path, "/dashboard/employer") =>
            IF HasIdentity(last) /\ last.role = "employer"
            THEN TRUE
            ELSE IsRedirect(last.outcome) /\ last.outcome # PassThrough
      /\ Under(last.path, "/dashboard/job-seeker") =>
            IF HasIdentity(last) /\ last.role = "job_seeker"
            THEN TRUE
            ELSE IsRedirect(last.outcome) /\ last.outcome # PassThrough

C1_Witness ==
    /\ last.variant = "clerk"
    /\ last.path = "/dashboard/employer/reports"
    /\ last.role = "job_seeker"
    /\ IsRedirect(last.outcome)

(***************************************************************************)
(* C2: without an identity, /dashboard and every path under it redirect to *)
(* the sign-in page; a path under /auth/ or a public path passes through.  *)
(***************************************************************************)
C2_AnonymousRouting ==
    (Decided /\ ~HasIdentity(last)) =>
      /\ Under(last.path, "/dashboard") => IsSignInRedirect(last.outcome)
      /\ (StartsWith(last.path, "/auth/") \/ PublicPath(last.path)) =>
            last.outcome = PassThrough

C2_Witness ==
    /\ last.variant = "clerk"
    /\ ~HasIdentity(last)
    /\ last.path = "/dashboard/employer"
    /\ last.outcome = Redirect("/auth/signin")

(***************************************************************************)
(* C3: in the Clerk variant a caller with an identity and no role is       *)
(* redirected to /setup on every path under /dashboard or /auth and passes *)
(* through on exactly /setup.                                              *)
(***************************************************************************)
C3_NoRoleGoesToSetup ==
    (last.variant = "clerk" /\ HasIdentity(last) /\ ~HasRole(last)) =>
      /\ (Under(last.path, "/dashboard") \/ Under(last.path, "/auth")) =>
            last.outcome = Redirect("/setup")
      /\ last.path = "/setup" => last.outcome = PassThrough

C3_Witness ==
    /\ last.variant = "clerk"
    /\ HasIdentity(last) /\ ~HasRole(last)
    /\ last.path = "/setup"
    /\ last.outcome = PassThrough

(***************************************************************************)
(* C4: in each variant a caller with an identity and no role who requests  *)
(* a path under /dashboard/employer or /dashboard/job-seeker is redirected *)
(* to /setup, never to the other role's dashboard.                         *)
(***************************************************************************)
C4_SetupBeforeRoleMismatch ==
    (Decided /\ HasIdentity(last) /\ ~HasRole(last)
        /\ (Under(last.path, "/dashboard/employer")
              \/ Under(last.path, "/dashboard/job-seeker"))) =>
      last.outcome = Redirect("/setup")

(***************************************************************************)
(* C5: a caller with an identity and a role in {job_seeker, employer} who  *)
(* requests a path under /auth/ or exactly /dashboard is redirected to the *)
(* dashboard root of that role.                                            *)
(***************************************************************************)
C5_RedirectToOwnDashboard ==
    (Decided /\ HasIdentity(last) /\ last.role \in Roles
        /\ (StartsWith(last.path, "/auth/") \/ last.path = "/dashboard")) =>
      last.outcome = Redirect(RoleRoot[last.role])

C5_Witness ==
    /\ last.variant = "nextauth"
    /\ last.role = "employer"
    /\ last.path = "/auth/signin"
    /\ last.outcome = Redirect("/dashboard/employer")

(***************************************************************************)
(* C6: a job_seeker on a path under /dashboard/employer is redirected to   *)
(* /dashboard/job-seeker, an employer on a path under /dashboard/job-seeker*)
(* to /dashboard/employer; a caller whose role matches the segment passes  *)
(* through.                                                                *)
(***************************************************************************)
C6_RoleSegmentMismatch ==
    (Decided /\ HasIdentity(last)) =>
      /\ (last.role = "job_seeker" /\ Under(last.path, "/dashboard/employer"))
            => last.outcome = Redirect("/dashboard/job-seeker")
      /\ (last.role = "employer" /\ Under(last.path, "/dashboard/job-seeker"))
            => last.outcome = Redirect("/dashboard/employer")
      /\ (last.role = "employer" /\ Under(last.path, "/dashboard/employer"))
            => last.outcome = PassThrough
      /\ (last.role = "job_seeker" /\ Under(last.path, "/dashboard/job-seeker"))
            => last.outcome = PassThrough

C6_Witness ==
    /\ last.variant = "clerk"
    /\ last.role = "employer"
    /\ last.path = "/dashboard/employer/reports"
    /\ last.outcome = PassThrough

(***************************************************************************)
(* C7: the Clerk decision is a total function of (identity, role or        *)
(* absent, path): one outcome of {pass-through, redirect to sign-in,       *)
(* /setup, /dashboard/employer, /dashboard/job-seeker}, equal to the       *)
(* outcome of the decision table; paths of no class pass through.          *)
(***************************************************************************)
FiveOutcomes ==
    {PassThrough, Redirect("/auth/signin"), Redirect("/setup"),
     Redirect("/dashboard/employer"), Redirect("/dashboard/job-seeker")}

\* classify(path) -> PathClass, by string prefix
classify(p) ==
    IF p = "/setup" THEN "setup"
    ELSE IF StartsWith(p, "/dashboard") THEN "dashboard"
    ELSE IF StartsWith(p, "/auth") THEN "auth"
    ELSE "public"

\* the rows of the table that apply to e, each with its outcome; noRoleRow
\* is the set of path classes the row 'identity, no role -> /setup' covers
TableRows(e, noRoleRow) ==
    LET cls == classify(e.path)
        id == HasIdentity(e)
        rl == HasRole(e)
    IN  {r \in
          {[on |-> ~id /\ cls = "dashboard", out |-> Redirect("/auth/signin")],
           [on |-> ~id /\ cls \in {"auth", "public"}, out |-> PassThrough],
           [on |-> id /\ ~rl /\ cls = "setup", out |-> PassThrough],
           [on |-> id /\ ~rl /\ cls \in noRoleRow, out |-> Redirect("/setup")],
           [on |-> id /\ rl /\ cls = "auth",
            out |-> Redirect(OwnRoot(e.role))],
           [on |-> id /\ rl /\ e.path = "/dashboard",
            out |-> Redirect(OwnRoot(e.role))],
           [on |-> id /\ rl /\ StartsWith(e.path, "/dashboard/employer")
                      /\ e.role = "job_seeker",
            out |-> Redirect("/dashboard/job-seeker")],
           [on |-> id /\ rl /\ StartsWith(e.path, "/dashboard/job-seeker")
                      /\ e.role = "employer",
            out |-> Redirect("/dashboard/employer")],
           [on |-> id /\ rl /\ cls = "public", out |-> PassThrough],
           [on |-> id /\ rl /\ e.role = "employer"
                      /\ StartsWith(e.path, "/dashboard/employer"),
            out |-> PassThrough],
           [on |-> id /\ rl /\ e.role = "job_seeker"
                      /\ StartsWith(e.path, "/dashboard/job-seeker"),
            out |-> PassThrough]} : r.on}

\* the outcome agrees with the table: every applicable row gives it, and
\* with no applicable row the request passes through
AgreesWithTable(e, noRoleRow) ==
    LET outs == {r.out : r \in TableRows(e, noRoleRow)}
    IN  IF outs = {} THEN e.outcome = PassThrough ELSE outs = {e.outcome}

OnOwnSegment(e) ==
    /\ e.variant = "clerk"
    /\ HasIdentity(e)
    /\ \/ e.role = "job_seeker" /\ e.path = "/dashboard/job-seeker"
       \/ e.role = "employer" /\ e.path = "/dashboard/employer"

C8_CorrectPathAlwaysPasses ==
    \A e \in {prev, last} : OnOwnSegment(e) => e.outcome = PassThrough

\* the same request evaluated twice in a row, passed both times
C8_Witness ==
    /\ OnOwnSegment(prev) /\ OnOwnSegment(last)
    /\ prev.userId = last.userId /\ prev.path = last.path
    /\ last.path = "/dashboard/job-seeker"
    /\ prev.outcome = PassThrough /\ last.outcome = PassThrough

(***************************************************************************)
(* C9: an evaluation of the middleware writes neither the user records nor *)
(* the provider's role metadata, and two evaluations of the same           *)
(* (identity, role, path) give the same outcome whatever came between.     *)
(***************************************************************************)
MiddlewareStep == last' # last \/ prev' # prev

SameRequest(e, f) ==
    /\ e.variant = "clerk" /\ f.variant = "clerk"
    /\ e.userId = f.userId /\ e.role = f.role /\ e.path = f.path

EmailsOf(users) == {users[i].email : i \in 1..Len(users)}

\* call p is made in this step / call p returns a user in this step
Begins(p) == Idle(p) /\ calls'[p] # calls[p]
Completes(p) == ~Idle(p) /\ calls'[p].pc = "done"

C10_FirstCreateSucceedsLaterFail ==
    [][\A p \in Procs :
        /\ (Begins(p) /\ calls'[p].data.email \in EmailsOf(store)) =>
              /\ calls'[p].result = Threw(DuplicateMessage)
              /\ store' = store
        /\ (Begins(p) /\ calls'[p].data.email \notin EmailsOf(store)) =>
              /\ ~Idle(p)'
              /\ store' = store
        /\ Completes(p) =>
              /\ calls'[p].result.status = "ok"
              /\ calls'[p].result.user.email = calls[p].data.email
              /\ Len(store') = Len(store) + 1
              /\ SubSeq(store', 1, Len(store)) = store
              /\ store'[Len(store')].email = calls[p].data.email
              /\ calls[p].data.email \notin EmailsOf(store)
        /\ EmailsOf(store) \subseteq EmailsOf(store')
      ]_vars

\* one call has created ann@x.io and a later call with that email has failed
C10_Witness ==
    /\ EmailsOf(store) = {"ann@x.io"}
    /\ Len(store) = 1
    /\ calls["p1"].result.status = "ok"
    /\ calls["p1"].data.email = "ann@x.io"
    /\ calls["p2"].result = Threw(DuplicateMessage)
    /\ calls["p2"].data.email = "ann@x.io"

(***************************************************************************)
(* C11: in every reachable state of the user store no two records have the *)
(* same email, in every interleaving of createUser calls, two calls with   *)
(* the same email whose lookups both run before either insert included.    *)
(***************************************************************************)
C11_EmailsUnique ==
    \A i, j \in 1..Len(store) :
        i # j => store[i].email # store[j].email

(***************************************************************************)
(* C12: every persisted role is job_seeker or employer: the role of every  *)
(* user record written through POST /api/auth/register and the role the    *)
(* role update and the user.created webhook write to the provider's        *)
(* metadata (a user without metadata has no persisted role).               *)
(***************************************************************************)
C12_PersistedRolesInEnum ==
    /\ \A i \in 1..Len(store) : store[i].role \in Roles
    /\ \A u \in UserIds : publicMetadata[u] # NoRole => publicMetadata[u] \in Roles

C12_Witness ==
    \E p \in Procs, i \in 1..Len(store) :
        /\ http[p].status = 201
        /\ store[i].email = http[p].body.email
        /\ store[i].role = "employer"

(***************************************************************************)
(* C13: a direct call of createUser whose argument lacks the email, the    *)
(* password or the role, or has a role outside {job_seeker, employer},     *)
(* fails, and no record without an email or with a role outside the enum   *)
(* is ever in the store.                                                   *)
(***************************************************************************)
ViolatesConstraints(data) ==
    \/ data.email = Missing
    \/ data.password = Missing
    \/ data.role \notin Roles

C13_ServiceBoundaryValidates ==
    /\ \A p \in Procs :
          calls[p].pc = "done" /\ ViolatesConstraints(calls[p].data)
              => calls[p].result.status = "threw"
    /\ \A i \in 1..Len(store) :
          store[i].email # Missing /\ store[i].role \in Roles

(***************************************************************************)
(* C14: what createUser returns, what findUserById returns, the 201 body   *)
(* of POST /api/auth/register and what authorize returns have no password  *)
(* field, and the password field of the record a registration stored is    *)
(* the bcrypt hash of the submitted password under some salt, never the    *)
(* submitted password itself.                                              *)
(***************************************************************************)
HasPasswordField(r) == "password" \in DOMAIN r

\* the stored record the finished call of p created
CreatedBy(p) ==
    {i \in 1..Len(store) : store[i]._id = calls[p].result.user._id}

C14_HashNeverReturned ==
    /\ \A p \in Procs :
          calls[p].result.status = "ok"
              => /\ ~HasPasswordField(calls[p].result.user)
                 /\ \A i \in CreatedBy(p) :
                       /\ store[i].password # calls[p].data.password
                       /\ \E salt \in Salts :
                             store[i].password =
                                 bcryptHash(calls[p].data.password, salt)
    /\ \A p \in Procs :
          http[p].status = 201 => ~HasPasswordField(http[p].json.user)
    /\ reply.op \in {"findUserById", "authorize"} /\ reply.outcome = "user"
          => ~HasPasswordField(reply.user)

\* a registration answered 201 whose record is stored, followed by a lookup
\* by id that found that record
C14_Witness ==
    /\ http["p1"].status = 201
    /\ CreatedBy("p1") # {}
    /\ reply.op = "findUserById" /\ reply.outcome = "user"
    /\ reply.user._id = http["p1"].json.user.id

(***************************************************************************)
(* C15: after createUser(name, E, P, role) has succeeded, a login with E   *)
(* succeeds with the password P and with no other password, prefixes and   *)
(* case variants of P included: the record findUserByEmail(E) returns has   *)
(* email E and a hash that verifies P and nothing else.                    *)
(***************************************************************************)
\* the finished call of p created the record a lookup of its email returns
RoundTrip(p) ==
    /\ calls[p].result.status = "ok"
    /\ findUserByEmail(calls[p].data.email) # NoRecord
    /\ findUserByEmail(calls[p].data.email)._id = calls[p].result.user._id

C15_RoundTrip ==
    \A p \in Procs :
        RoundTrip(p) =>
            LET P == calls[p].data.password
                E == calls[p].data.email
                h == findUserByEmail(E).password
            IN  /\ findUserByEmail(E).email = E
                /\ verifyPassword(P, h)
                /\ \A Q \in LoginPasswords \ {P, Missing} :
                      ~verifyPassword(Q, h)
                /\ \A Q \in LoginPasswords \ {Missing} :
                      authorize(E, Q).outcome = "user" <=> Q = P

(***************************************************************************)
(* C16: POST /api/auth/register answers 400 to a body with a field         *)
(* missing, an invalid role, a malformed email or a password shorter than  *)
(* 6 characters, and 409 to a well-formed body whose email is registered   *)
(* when the request arrives; a 400 or 409 answer leaves the store as it    *)
(* was; a 201 answer comes with exactly one new record that has the        *)
(* submitted email and role, the one the answer names.                     *)
(***************************************************************************)
FieldMissing(b) ==
    Missing \in {b.name, b.email, b.password, b.role}

Rejectable(b) ==
    /\ b.json = "object"
    /\ \/ FieldMissing(b)
       \/ b.role \notin Roles
       \/ b.email \notin Emails
       \/ IsString(b.password) /\ Len(b.password) < 6

WellFormed(b) == b.json = "object" /\ ~Rejectable(b)

\* the request of p arrives in this step / is answered in this step
Arrives(p) == Idle(p) /\ http'[p] # http[p]
Answered(p) == http'[p] # http[p] /\ http'[p].status # 0

Added == {store'[i] : i \in 1..Len(store')} \ {store[i] : i \in 1..Len(store)}

\* the records this step added that have the email and role of body b
AddedFor(b) == {r \in Added : r.email = b.email /\ r.role = b.role}

C16_RegisterAnswers ==
    [][\A p \in Procs :
          /\ Arrives(p) /\ Rejectable(http'[p].body)
                => http'[p].status = 400
          /\ Arrives(p) /\ WellFormed(http'[p].body)
                /\ http'[p].body.email \in EmailsOf(store)
                => http'[p].status = 409
          /\ Answered(p) /\ http'[p].status \in {400, 409}
                => store' = store
          /\ Answered(p) /\ http'[p].status = 201
                => /\ Cardinality(AddedFor(http'[p].body)) = 1
                   /\ \A r \in AddedFor(http'[p].body) :
                         r._id = http'[p].json.user.id]_vars

\* one request answered 201 and a later one with the same email answered 409
C16_Witness ==
    /\ http["p1"].status = 409
    /\ http["p2"].status = 201
    /\ http["p1"].body.email = http["p2"].body.email
    /\ Len(store) = 1

(***************************************************************************)
(* C17: a registration whose other fields are valid and whose email is     *)
(* unused is rejected with 400 when its password has exactly 5 characters  *)
(* and accepted when it has exactly 6: it passes the checks and is         *)
(* answered 201; a body whose role is not job_seeker or employer, "admin"  *)
(* included, is rejected with 400.                                         *)
(***************************************************************************)
OthersValid(b) ==
    /\ b.json = "object"
    /\ b.name # Missing
    /\ b.email \in Emails
    /\ b.role \in Roles
    /\ IsString(b.password)

C17_InputBoundaries ==
    [][\A p \in Procs :
          /\ Arrives(p) /\ OthersValid(http'[p].body)
                /\ http'[p].body.email \notin EmailsOf(store)
                => /\ Len(http'[p].body.password) = 5
                         => http'[p].status = 400
                   /\ Len(http'[p].body.password) = 6
                         => http'[p].status = 0 /\ Pending(p)'
          /\ Pending(p) /\ Answered(p) /\ Len(http[p].body.password) = 6
                => http'[p].status = 201
          /\ Arrives(p) /\ http'[p].body.json = "object"
                /\ http'[p].body.role \notin Roles
                => http'[p].status = 400]_vars

\* a five-character password answered 400 and a six-character one
\* answered 201
C17_Witness ==
    /\ http["p2"].status = 201 /\ Len(http["p2"].body.password) = 6
    /\ http["p1"].status = 400
    /\ OthersValid(http["p1"].body) /\ Len(http["p1"].body.password) = 5

(***************************************************************************)
(* C18: a registration whose body is no JSON, is no object or carries a    *)
(* required field of the wrong type is answered 400, and a role update     *)
(* whose body is no JSON is answered 400 when it comes from a signed-in    *)
(* caller; neither is answered 500.                                        *)
(***************************************************************************)
MalformedBody(b) ==
    \/ b.json \in {"invalid", "null"}
    \/ b.json = "object" /\ NumberValue \in {b.name, b.email, b.password, b.role}

C18_MalformedInputIs400 ==
    /\ \A p \in Procs :
          MalformedBody(http[p].body) /\ http[p].status # 0
              => http[p].status = 400
    /\ \A c \in clerkUsers :
          \A up \in BOOLEAN : updateRoleHandler(c, Malformed, up).status = 400

(***************************************************************************)
(* C19: every request to POST /api/auth/register ends with one of 201,     *)
(* 400, 409, 500 and every request to POST /api/user/update-role with one  *)
(* of 200, 400, 401, 500; a request during which a storage operation or    *)
(* the identity provider failed ends with 500 and the fixed message        *)
(* 'Internal server error', and no 500 answer carries another text.        *)
(***************************************************************************)
C19_FixedStatusesAndGeneric500 ==
    /\ \A p \in Procs :
          /\ http[p].status \in {0, 201, 400, 409, 500}
          /\ http[p].status = 500
                => http[p].json = [error |-> InternalServerError]
          /\ http[p].io = "failed" /\ http[p].status # 0
                => http[p].status = 500
    /\ updateRoleStatus \in {0, 200, 400, 401, 500}
    /\ \A c \in clerkUsers, r \in Roles :
          updateRoleHandler(c, r, FALSE) = [status |-> 500, write |-> FALSE]

(***************************************************************************)
(* C20: POST /api/user/update-role answers 401 to a caller without         *)
(* identity whatever the body, and 400 to a caller with an identity whose  *)
(* body has no role or a role outside {job_seeker, employer}, and writes   *)
(* no metadata in either case; it answers 200 only when it writes the      *)
(* submitted role.                                                         *)
(***************************************************************************)
C20_UpdateRoleAnswers ==
    \A c \in clerkUsers \cup {NoUser}, b \in RoleInputs, up \in BOOLEAN :
        LET a == updateRoleAnswer(c, b, up)
        IN  /\ c = NoUser => a.status = 401 /\ ~a.write
            /\ c # NoUser /\ b \notin Roles => a.status = 400 /\ ~a.write
            /\ a.status = 200 => a.write /\ b \in Roles

(***************************************************************************)
(* C21: a request to POST /api/user/update-role changes the role of no     *)
(* user other than its authenticated caller, whatever userId its body      *)
(* carries.                                                                *)
(***************************************************************************)
C21_OnlyOwnRoleChanges ==
    \A c \in clerkUsers \cup {NoUser}, t \in UserIds,
       b \in UpdateRoleBodies, up \in BOOLEAN :
        \A u \in UserIds \ {c} :
            updateRoleEffect(c, t, b, up)[u] = publicMetadata[u]

\* two users with different roles, one of which a role update wrote: a
\* request naming the other user in its body can be sent
C21_Witness ==
    /\ clerkUsers = UserIds
    /\ updateRoleStatus = 200
    /\ publicMetadata["user_1"] = "employer"
    /\ publicMetadata["user_2"] = "job_seeker"

(***************************************************************************)
(* C22: a createUser during which a read or a write of the store failed    *)
(* ends with a fault, never with a user and never with the duplicate       *)
(* error, and the step in which it fails leaves the store as it was; a     *)
(* findUserByEmail during which the read failed ends with a fault, never   *)
(* with null.                                                              *)
(***************************************************************************)
IsFault(result) ==
    result.status = "threw" /\ result.message # DuplicateMessage

C22_StorageFailurePropagates ==
    /\ [](\A p \in Procs :
             http[p].io = "failed" /\ calls[p].pc = "done"
                 => IsFault(calls[p].result))
    /\ [](reply.io = "failed" => reply.outcome = "threw")
    /\ [][\A p \in Procs :
             http'[p].io = "failed" /\ calls'[p].pc = "done"
                 /\ calls'[p] # calls[p]
                 => store' = store]_vars

(***************************************************************************)
(* C23: when an email and a password are submitted, authorize returns the  *)
(* same value, null, for an unknown email, for a known email with a wrong  *)
(* password and for a record without a password hash.                      *)
(***************************************************************************)
UnknownEmail(e) == findUserByEmail(e) = NoRecord
NoHash(e) == ~UnknownEmail(e) /\ findUserByEmail(e).password = Missing
WrongPassword(e, pw) ==
    /\ ~UnknownEmail(e) /\ ~NoHash(e)
    /\ ~verifyPassword(pw, findUserByEmail(e).password)

C23_LoginFailureGeneric ==
    reply.op = "authorize" /\ reply.email # Missing /\ reply.password # Missing
      /\ \/ UnknownEmail(reply.email)
         \/ NoHash(reply.email)
         \/ WrongPassword(reply.email, reply.password)
      => reply.outcome = "null" /\ reply.user = NoRecord

\* a login for the record without a hash was refused, in a store that also
\* holds a record with a hash
C23_Witness ==
    /\ reply.op = "authorize" /\ reply.outcome = "null"
    /\ reply.password # Missing
    /\ NoHash(reply.email)
    /\ Len(store) = 2

(***************************************************************************)
(* C24: when a signed-in user without a role submits role R on /setup,     *)
(* with the identity provider available, the flow ends with R saved in the *)
(* user's public metadata and with the middleware passing the user through *)
(* on the dashboard root of R; the POST and the navigation both go through *)
(* the middleware.                                                         *)
(***************************************************************************)
C24_RoleSelectionCompletes ==
    \A u \in clerkUsers, R \in Roles :
        publicMetadata[u] = NoRole
          /\ clerkMiddleware(u, publicMetadata[u], "/setup") = PassThrough
          => /\ roleSelectionFlow(u, R).metadata[u] = R
             /\ roleSelectionFlow(u, R).landing = PassThrough

(***************************************************************************)
(* C25: following the redirects of the middleware from any starting path   *)
(* with an unchanged caller state reaches a pass-through within a bounded  *)
(* number of hops and never visits a path twice, in both variants and for  *)
(* callers with no identity, without role, and with any role string.       *)
(***************************************************************************)
outcomeOf(variant, claims, pathname) ==
    IF variant = "nextauth"
    THEN nextAuthResponse(claims, pathname)
    ELSE clerkMiddleware(claims.userId, claims.role, pathname)

\* the paths requested when the browser follows the redirects, at most n
RECURSIVE redirectChain(_, _, _, _)
redirectChain(variant, claims, pathname, n) ==
    IF n = 0 \/ outcomeOf(variant, claims, pathname) = PassThrough
    THEN <<pathname>>
    ELSE <<pathname>> \o
         redirectChain(variant, claims,
                       outcomeOf(variant, claims, pathname).to, n - 1)

C25_NoRedirectLoop ==
    Decided =>
        LET claims == [userId |-> last.userId, role |-> last.role]
            chain == redirectChain(last.variant, claims, last.path, MaxHops)
        IN  /\ outcomeOf(last.variant, claims, chain[Len(chain)])
                  = PassThrough
            /\ \A i, j \in 1..Len(chain) : i # j => chain[i] # chain[j]

(***************************************************************************)
(* C26: for a caller with no identity, with an identity and no role, or    *)
(* with an identity and the role job_seeker or employer, and for every     *)
(* path under /auth/ or /dashboard, the NextAuth middleware and the Clerk  *)
(* middleware give the same outcome: both pass through or both redirect to *)
(* the same target.                                                        *)
(***************************************************************************)
C26_VariantsEquivalent ==
    Decided /\ last.role \in Roles \cup {NoRole}
      /\ (StartsWith(last.path, "/auth/") \/ StartsWith(last.path, "/dashboard"))
      => LET claims == [userId |-> last.userId, role |-> last.role]
         IN  outcomeOf("nextauth", claims, last.path)
                 = outcomeOf("clerk", claims, last.path)

(***************************************************************************)
(* C27: in the file-backed store, when two createUser calls with different *)
(* emails have both returned a user, whatever the interleaving of their    *)
(* loads and saves, both records are in the store and findUserByEmail      *)
(* returns each of them.                                                   *)
(***************************************************************************)
ReturnedUser(p) == calls[p].pc = "done" /\ calls[p].result.status = "ok"

C27_NoRegistrationLost ==
    backend = "file" =>
        \A p, q \in Procs :
            ReturnedUser(p) /\ ReturnedUser(q)
              /\ calls[p].data.email # calls[q].data.email
              => findUserByEmail(calls[p].data.email)._id
                     = calls[p].result.user._id

(***************************************************************************)
(* C28: once a role is stored for a user, a user.created webhook for that  *)
(* user, delivered late or again, leaves the stored role as it is; the     *)
(* job_seeker default takes effect only for a user without a role.         *)
(***************************************************************************)
C28_WebhookKeepsChosenRole ==
    \A u \in clerkUsers :
        publicMetadata[u] \in Roles =>
            \A h \in BOOLEAN, v \in BOOLEAN, up \in BOOLEAN :
                webhookEffect(u, h, v, "user.created", up)[u]
                    = publicMetadata[u]

(***************************************************************************)
(* C29: authorize returns an identity exactly when the store holds a       *)
(* record with the submitted email that has a password hash which          *)
(* verifyPassword accepts for the submitted password; the email and role   *)
(* returned are those of that record, and the role in the JWT and in the   *)
(* session made from it is that role.                                      *)
(***************************************************************************)
Matching(email, password) ==
    {i \in 1..Len(store) :
        /\ store[i].email = email
        /\ store[i].password # Missing
        /\ verifyPassword(password, store[i].password)}

C29_AuthorizeIffVerified ==
    \A e \in LoginEmails, pw \in LoginPasswords :
        LET a == authorize(e, pw) IN
        /\ a.outcome = "user" <=> Matching(e, pw) # {}
        /\ a.outcome = "user" =>
              \E i \in Matching(e, pw) :
                  /\ a.user.email = store[i].email
                  /\ a.user.role = store[i].role
                  /\ jwt(EmptyToken, a.user).role = store[i].role
                  /\ session(EmptySession, jwt(EmptyToken, a.user))
                         .user.role = store[i].role

(***************************************************************************)
(* Client-side guard ProtectedRoute, components/auth/ProtectedRoute.tsx    *)
(* and components/layout/Navigation.tsx                                    *)
(***************************************************************************)
\* what the component returns, and where its effect or render calls
\* router.push ("" when it does not)
Rendered(render, push) == [render |-> render, push |-> push]

\* useSession().status
SessionStatuses == {"loading", "authenticated", "unauthenticated"}

\* ProtectedRoute.tsx: user is NoUser when useSession().data is null, role is
\* session.user.role, requiredRole is Missing when the prop is not given;
\* without a session the render pushes '/auth/signin' and the effect then
\* pushes redirectTo
ProtectedRoute(mounted, status, user, role, requiredRole, redirectTo) ==
    IF ~mounted \/ status = "loading" THEN Rendered("spinner", "")
    ELSE IF user = NoUser THEN Rendered("null", redirectTo)
    ELSE IF requiredRole # Missing /\ role # requiredRole
    THEN Rendered("null", dashboardUrl(role))
    ELSE Rendered("children", "")

\* Navigation.tsx:166-209, the session-based guard without the mounted flag
NavProtectedRoute(status, user, role, requiredRole, redirectTo) ==
    IF status = "loading" THEN Rendered("spinner", "")
    ELSE IF user = NoUser THEN Rendered("null", redirectTo)
    ELSE IF requiredRole # Missing /\ role # requiredRole
    THEN Rendered("null", dashboardUrl(role))
    ELSE Rendered("children", "")

\* Navigation.tsx:224-272, the provider-based guard:
\* const userRole = user.publicMetadata?.role as string || 'job_seeker'
ClerkProtectedRoute(isClient, isLoaded, user, role, requiredRole, redirectTo) ==
    LET userRole == IF Truthy(role) THEN role ELSE "job_seeker" IN
    IF ~isClient \/ ~isLoaded THEN Rendered("spinner", "")
    ELSE IF user = NoUser THEN Rendered("null", redirectTo)
    ELSE IF requiredRole # Missing /\ userRole # requiredRole
    THEN Rendered("null", dashboardUrl(userRole))
    ELSE Rendered("children", "")

(***************************************************************************)
(* C30: ProtectedRoute with requiredRole R renders its children only when  *)
(* loading has finished and a signed-in user whose role is R is present;   *)
(* while loading, without a user, with a user of another role or with a    *)
(* user without a role it does not render them, in the session-based       *)
(* guards and, for every user the provider holds, in the provider-based    *)
(* guard.                                                                  *)
(***************************************************************************)
C30_GuardRendersOnlyForRole ==
    \A R \in Roles, mounted \in BOOLEAN :
        /\ \A status \in SessionStatuses, u \in UserIds \cup {NoUser},
              role \in Roles \cup {NoRole} :
              /\ ProtectedRoute(mounted, status, u, role, R, "/auth/signin")
                     .render = "children"
                  => mounted /\ status # "loading" /\ u # NoUser /\ role = R
              /\ NavProtectedRoute(status, u, role, R, "/auth/signin")
                     .render = "children"
                  => status # "loading" /\ u # NoUser /\ role = R
        /\ \A isLoaded \in BOOLEAN, u \in UserIds \cup {NoUser} :
              LET user == IF u \in clerkUsers THEN u ELSE NoUser
                  role == IF u \in clerkUsers THEN publicMetadata[u]
                          ELSE NoRole
              IN  ClerkProtectedRoute(mounted, isLoaded, user, role, R,
                                      "/auth/signin").render = "children"
                  => mounted /\ isLoaded /\ user # NoUser /\ role = R

====
